---------------------------- MODULE Spec2Model ----------------------------
(***************************************************************************)
(* Reconciliation and render-synchronisation pipeline of corgo.            *)
(*                                                                         *)
(* Three execution contexts are modelled:                                  *)
(*   - the window task   (src/src/window.rs, WindowTask::run),             *)
(*   - the host loop     (src/src/lib.rs, launch),                         *)
(*   - the frame-ready notifier of the renderer                            *)
(*                       (src/src/window.rs, Notifier::wake_up).           *)
(*                                                                         *)
(* The wake-up event that window.rs injects through the event-loop proxy   *)
(* is dispatched by lib.rs on its role: the stale signal of the window     *)
(* task (window.rs:151, window.rs:425) is the Dirty event of lib.rs:31,    *)
(* the notifier's event (window.rs:210) is the Rerender event of           *)
(* lib.rs:38, and the Redraw event that lib.rs:36 sends to the window is   *)
(* the user event matched at window.rs:347.                                *)
(*                                                                         *)
(* The UI description engine (VirtualDom), the shadow tree container       *)
(* (RealDom), the box-model solver (Taffy) and the OS event loop are       *)
(* external collaborators; they are modelled at their interface.           *)
(* FocusState, Focus and StretchLayout live in src/state/focus.rs and      *)
(* src/state/layout.rs, which are not part of the sources at hand; they    *)
(* are modelled from the specification.                                    *)
(***************************************************************************)
EXTENDS Integers, Sequences, FiniteSets, TLC

VARIABLES
    rdom,             \* shadow tree: handle -> node record, for present nodes
    focus,            \* state.focus : FocusState
    modifiers,        \* state.modifiers (set of modifier names)
    dirty_nodes,      \* DirtyNodes
    size,             \* tracked window size
    resize,           \* pending resize (NoResize or a size)
    running,          \* loop flag of WindowTask::run
    pc,               \* "loop" while in the while loop, "done" after deinit
    steps,            \* pipeline steps taken by the latest loop iteration
    event_rx,         \* channel host loop -> window task
    user_events,      \* events injected through the EventLoopProxy
    redraw_requested, \* window.request_redraw() outstanding at the OS
    frames,           \* frames submitted to the renderer, not yet notified
    cycle,            \* observer: signals, paints and swaps of the current cycle
    host,             \* "run" while launch is in its event loop, "exited" after
    vdom_work,        \* messages queued at the UI engine's scheduler
    redrawn           \* observer: a RedrawRequested of this window was handled

vars == <<rdom, focus, modifiers, dirty_nodes, size, resize, running, pc, steps,
          event_rx, user_events, redraw_requested, frames, cycle, host, vdom_work, redrawn>>

---------------------------------------------------------------------------
(* Bounds of the model *)

NumNodes == 3
MaxBatch == 2
MaxQueue == 2
MaxInbox == 1

(* Program constants *)

Root == 1
ThisWindow == 1
KeypressElement == 2     \* ElementId(1): node ids of the model start at 1
OtherWindow == 2

---------------------------------------------------------------------------
(* Shadow tree shape.  Handles are 1..NumNodes; the engine places handle n *)
(* under Parent(n), so that document (depth-first) order is handle order.  *)

Nodes == 1..NumNodes
NoNode == 0
Sizes == {1, 2}
NoResize == 0
NoLayout == <<>>

Parent(n) == IF n = Root THEN NoNode ELSE IF n % 2 = 0 THEN Root ELSE n - 1

RECURSIVE Ancestors(_)
Ancestors(n) == IF n = Root \/ n = NoNode THEN {} ELSE {Parent(n)} \cup Ancestors(Parent(n))

Subtree(P, n) == {d \in P : d = n \/ n \in Ancestors(d)}

Present(dom) == DOMAIN dom

---------------------------------------------------------------------------
(* Per-node derived state *)

PreventDefaultDefault == "Unknown"

(* A variant in which a freshly created node counts as focused. *)
NodeStateFocusedByDefault ==
    [layout_node |-> FALSE, layout |-> NoLayout,
     focus |-> "Unfocusable", focused |-> TRUE,
     prevent_default |-> PreventDefaultDefault]

NodeStateDefault ==
    [layout_node |-> FALSE, layout |-> NoLayout,
     focus |-> "Unfocusable", focused |-> FALSE,
     prevent_default |-> PreventDefaultDefault]

NewNode == [prevent_attr |-> "", tabindex_attr |-> "", state |-> NodeStateDefault]

PreventNames ==
    {"onfocus", "onkeypress", "onkeyrelease", "onkeydown", "onkeyup", "onclick",
     "onmousedown", "onmouseup", "onmouseenter", "onmouseover", "onmouseleave",
     "onmouseout", "onwheel", "oncontextmenu"}

PreventCategory(v) ==
    CASE v = "onfocus" -> "Focus"
      [] v = "onkeypress" -> "KeyPress"
      [] v = "onkeyrelease" -> "KeyRelease"
      [] v = "onkeydown" -> "KeyDown"
      [] v = "onkeyup" -> "KeyUp"
      [] v = "onclick" -> "Click"
      [] v = "onmousedown" -> "MouseDown"
      [] v = "onmouseup" -> "MouseUp"
      [] v = "onmouseenter" -> "MouseEnter"
      [] v = "onmouseover" -> "MouseOver"
      [] v = "onmouseleave" -> "MouseLeave"
      [] v = "onmouseout" -> "MouseOut"
      [] v = "onwheel" -> "Wheel"
      [] v = "oncontextmenu" -> "ContextMenu"
      [] OTHER -> "Unknown"

(* A reducer that assigns the category without comparing it to the field. *)
PreventDefaultReduceNoCompare(self, attr) ==
    IF attr \notin PreventNames
    THEN [self |-> self, changed |-> FALSE]
    ELSE [self |-> PreventCategory(attr), changed |-> TRUE]

(* PreventDefault::reduce: self is the field, attr the text value of the   *)
(* dioxus-prevent-default attribute ("" when the attribute is absent).     *)
(* Result: the field after the call and the returned flag.                 *)
PreventDefaultReduce(self, attr) ==
    IF attr \notin PreventNames
    THEN [self |-> self, changed |-> FALSE]
    ELSE IF PreventCategory(attr) = self
         THEN [self |-> self, changed |-> FALSE]
         ELSE [self |-> PreventCategory(attr), changed |-> TRUE]

(* Focus::reduce (focus level from the tabindex attribute). *)
FocusLevel(attr) ==
    IF attr = "0" THEN "Focusable"
    ELSE IF attr = "-1" THEN "Focus"
    ELSE "Unfocusable"


---------------------------------------------------------------------------
(* Mutation batches produced by the UI description engine.  A mutation is  *)
(* [op, id, val]; the engine only emits mutations that are valid for the   *)
(* tree as it is after the mutations before it.                            *)

Mut(op, id, val) == [op |-> op, id |-> id, val |-> val]

MutsOver(P, TabVals, PrevVals) ==
    {Mut("add", n, "") : n \in {x \in Nodes \ P : Parent(x) \in P}}
    \cup {Mut("remove", n, "") : n \in P \ {Root}}
    \cup {Mut("tabindex", n, v) : n \in P, v \in TabVals}
    \cup {Mut("prevent", n, v) : n \in P, v \in PrevVals}

PresentAfter(P, m) ==
    IF m.op = "add" THEN P \cup {m.id}
    ELSE IF m.op = "remove" THEN P \ Subtree(P, m.id)
    ELSE P

RECURSIVE BatchesFrom(_, _, _, _)
BatchesFrom(P, k, TabVals, PrevVals) ==
    IF k = 0 THEN {<<>>}
    ELSE {<<>>} \cup
         UNION {{<<m>> \o b : b \in BatchesFrom(PresentAfter(P, m), k - 1, TabVals, PrevVals)} :
                m \in MutsOver(P, TabVals, PrevVals)}

(* RealDom::apply_mutations, one mutation.  A mutation naming a handle     *)
(* that is not in the tree is a no-op.                                     *)
ApplyMutation(dom, m) ==
    LET P == DOMAIN dom IN
    IF m.op = "add"
    THEN IF m.id \in P \/ Parent(m.id) \notin P THEN dom
         ELSE [n \in P \cup {m.id} |-> IF n = m.id THEN NewNode ELSE dom[n]]
    ELSE IF m.id \notin P THEN dom
    ELSE IF m.op = "remove"
    THEN [n \in P \ Subtree(P, m.id) |-> dom[n]]
    ELSE IF m.op = "tabindex"
    THEN [dom EXCEPT ![m.id].tabindex_attr = m.val]
    ELSE IF m.op = "prevent"
    THEN [dom EXCEPT ![m.id].prevent_attr = m.val]
    ELSE dom

RECURSIVE ApplyMutations(_, _)
ApplyMutations(dom, batch) ==
    IF batch = <<>> THEN dom
    ELSE ApplyMutations(ApplyMutation(dom, Head(batch)), Tail(batch))

(* The nodes apply_mutations hands to update_state: nodes created, nodes   *)
(* whose child list changed, nodes with an attribute written.              *)
NoUpdate == [created |-> {}, children |-> {}, attrs |-> {}]

TouchOne(P, m, u) ==
    IF m.op = "add"
    THEN IF m.id \in P \/ Parent(m.id) \notin P THEN u
         ELSE [u EXCEPT !.created = @ \cup {m.id}, !.children = @ \cup {Parent(m.id)}]
    ELSE IF m.id \notin P THEN u
    ELSE IF m.op = "remove"
    THEN LET gone == Subtree(P, m.id) IN
         [created |-> u.created \ gone,
          children |-> (u.children \cup {Parent(m.id)}) \ gone,
          attrs |-> u.attrs \ gone]
    ELSE [u EXCEPT !.attrs = @ \cup {m.id}]

RECURSIVE ToUpdate(_, _, _)
ToUpdate(P, batch, u) ==
    IF batch = <<>> THEN u
    ELSE ToUpdate(PresentAfter(P, Head(batch)), Tail(batch), TouchOne(P, Head(batch), u))

(* StretchLayout::reduce: the measurement node is created lazily on the    *)
(* first visit and kept; the field changed when the node is new or its     *)
(* child list changed.                                                     *)
LayoutReduce(st, isNew, childrenChanged) ==
    [layout_node |-> TRUE, changed |-> (~st.layout_node) \/ isNew \/ childrenChanged]

(* One node through every reducer of NodeState. *)
ReduceNode(node, isNew, childrenChanged) ==
    LET pd == PreventDefaultReduce(node.state.prevent_default, node.prevent_attr)
        lv == FocusLevel(node.tabindex_attr)
        ly == LayoutReduce(node.state, isNew, childrenChanged)
    IN [node |-> [node EXCEPT !.state.prevent_default = pd.self,
                              !.state.focus = lv,
                              !.state.layout_node = ly.layout_node],
        changed |-> pd.changed \/ lv # node.state.focus \/ ly.changed]

(* RealDom::update_state: reduce the nodes handed over, return the tree    *)
(* and the handles whose state changed (to_rerender).                      *)
UpdateState(dom, u) ==
    LET all == (u.created \cup u.children \cup u.attrs) \cap DOMAIN dom
        red(n) == ReduceNode(dom[n], n \in u.created, n \in u.children)
    IN [rdom |-> [n \in DOMAIN dom |-> IF n \in all THEN red(n).node ELSE dom[n]],
        to_rerender |-> {n \in all : red(n).changed}]

---------------------------------------------------------------------------
(* Box-model solver: nodes are stacked in document order; a node starts    *)
(* at the row after the nodes before it, is as tall as its subtree and as  *)
(* wide as the available size.                                             *)

Rect(P, n, sz) == <<Cardinality({m \in P : m < n}), Cardinality(Subtree(P, n)), sz>>

(* compute_layout on the root, then traverse_depth_first_mut copying the   *)
(* solver's result into every node that has a measurement node.            *)
Relayout(dom, sz) ==
    [n \in DOMAIN dom |->
        IF dom[n].state.layout_node
        THEN [dom[n] EXCEPT !.state.layout = Rect(DOMAIN dom, n, sz)]
        ELSE dom[n]]

---------------------------------------------------------------------------
(* Dirty set *)

DirtyAll == [all |-> TRUE, nodes |-> {}]
DirtySome(S) == [all |-> FALSE, nodes |-> S]
DirtyDefault == DirtySome({})
(* An emptiness test that looks at the explicit handles alone. *)
DirtyIsEmptyHandlesOnly(d) == d.nodes = {}

DirtyIsEmpty(d) == IF d.all THEN FALSE ELSE d.nodes = {}
DirtyExtend(d, S) == IF d.all THEN d ELSE DirtySome(d.nodes \cup S)
Covers(d, n) == d.all \/ n \in d.nodes

---------------------------------------------------------------------------
(* Focus navigation state machine *)

FocusDefault == [last_focused_id |-> NoNode, dirty |-> FALSE]

Focusables(dom) == {n \in DOMAIN dom : dom[n].state.focus = "Focusable"}

Min(S) == CHOOSE x \in S : \A y \in S : x <= y
Max(S) == CHOOSE x \in S : \A y \in S : x >= y

(* Successor / predecessor of cur in document order among the focusable    *)
(* nodes, wrapping around at the ends.                                     *)
ProgressTarget(F, cur, forward) ==
    IF forward
    THEN IF \E n \in F : n > cur THEN Min({n \in F : n > cur}) ELSE Min(F)
    ELSE IF cur # NoNode /\ \E n \in F : n < cur THEN Max({n \in F : n < cur}) ELSE Max(F)

SetFocused(dom, n, b) ==
    IF n \in DOMAIN dom THEN [dom EXCEPT ![n].state.focused = b] ELSE dom

FocusProgress(dom, f, forward) ==
    LET F == Focusables(dom) IN
    IF F = {} THEN [rdom |-> dom, focus |-> f]
    ELSE LET next == ProgressTarget(F, f.last_focused_id, forward) IN
         [rdom |-> SetFocused(SetFocused(dom, f.last_focused_id, FALSE), next, TRUE),
          focus |-> [last_focused_id |-> next, dirty |-> TRUE]]

FocusPrune(f, m, dom) ==
    IF /\ m.op = "remove"
       /\ f.last_focused_id # NoNode
       /\ m.id \in DOMAIN dom
       /\ f.last_focused_id \in Subtree(DOMAIN dom, m.id)
    THEN [last_focused_id |-> NoNode, dirty |-> TRUE]
    ELSE f

FocusClean(f) == [ret |-> f.dirty, focus |-> [f EXCEPT !.dirty = FALSE]]


---------------------------------------------------------------------------
(* Events.  Every event is a record of the same shape; the fields that a   *)
(* kind does not use keep their default.                                   *)

Ev(kind, w) == [kind |-> kind, w |-> w, key |-> "", pressed |-> FALSE, mods |-> {}, sz |-> NoResize]
KeyEv(w, key, pressed) == [Ev("KeyboardInput", w) EXCEPT !.key = key, !.pressed = pressed]
ModsEv(w, mods) == [Ev("ModifiersChanged", w) EXCEPT !.mods = mods]
ResizedEv(w, s) == [Ev("Resized", w) EXCEPT !.sz = s]

WindowEventKinds == {"CloseRequested", "KeyboardInput", "ModifiersChanged", "Resized", "Moved"}

(* ModifiersChanged: glutin's flags to keyboard_types::Modifiers *)
TranslateModifiers(mods) ==
    (IF "alt" \in mods THEN {"ALT"} ELSE {})
    \cup (IF "ctrl" \in mods THEN {"CONTROL"} ELSE {})
    \cup (IF "logo" \in mods THEN {"META"} ELSE {})
    \cup (IF "shift" \in mods THEN {"SHIFT"} ELSE {})

---------------------------------------------------------------------------
(* The window task.  t is the task's local state during one iteration of   *)
(* the loop of WindowTask::run; to_update, to_rerender, emitted, request   *)
(* and painted are locals of the iteration.                                *)

RECURSIVE Repeat(_, _)
Repeat(x, n) == IF n = 0 THEN <<>> ELSE <<x>> \o Repeat(x, n - 1)

Step(t, name) == [t EXCEPT !.steps = Append(@, name)]

(* A variant of the redraw handling that drops the result of clean(). *)
OnRedrawRequestedCleanIgnored(t) ==
    LET c == FocusClean(t.focus)
        nodes == t.dirty_nodes
    IN [t EXCEPT !.focus = c.focus,
                 !.nodes = nodes,
                 !.painted = ~DirtyIsEmpty(nodes),
                 !.swapped = ~DirtyIsEmpty(nodes),
                 !.dirty_nodes = DirtyDefault]

(* A variant of the redraw handling that leaves the dirty set in place. *)
OnRedrawRequestedNoReset(t) ==
    LET c == FocusClean(t.focus)
        nodes == IF c.ret THEN DirtyAll ELSE t.dirty_nodes
    IN [t EXCEPT !.focus = c.focus,
                 !.nodes = nodes,
                 !.painted = ~DirtyIsEmpty(nodes),
                 !.swapped = ~DirtyIsEmpty(nodes)]

(* A variant of the redraw handling that paints whatever the dirty set. *)
OnRedrawRequestedAlwaysPaints(t) ==
    LET c == FocusClean(t.focus)
        nodes == IF c.ret THEN DirtyAll ELSE t.dirty_nodes
    IN [t EXCEPT !.focus = c.focus,
                 !.nodes = nodes,
                 !.painted = TRUE,
                 !.swapped = TRUE,
                 !.dirty_nodes = DirtyDefault]

(* Event::RedrawRequested(w) if w == id *)
OnRedrawRequested(t) ==
    LET c == FocusClean(t.focus)
        nodes == IF c.ret THEN DirtyAll ELSE t.dirty_nodes
    IN [t EXCEPT !.focus = c.focus,
                 !.nodes = nodes,
                 !.painted = ~DirtyIsEmpty(nodes),
                 !.swapped = ~DirtyIsEmpty(nodes),
                 !.dirty_nodes = DirtyDefault]

(* WindowTask::send_event: a UserEvent handed to the UI engine's scheduler *)
Send(t, name, element) == [t EXCEPT !.sent = Append(@, [name |-> name, element |-> element])]

(* state.focus.progress(&mut rdom, forward), noted in the log of calls *)
Progress(t, forward) ==
    LET r == FocusProgress(t.rdom, t.focus, forward)
    IN [Send(t, IF forward THEN "progress_forward" ELSE "progress_backward", NoNode)
           EXCEPT !.rdom = r.rdom, !.focus = r.focus]

KeyName(e) == IF e.pressed THEN "keydown" ELSE "keyup"

(* A variant of the Tab handling that ignores the Shift modifier. *)
OnKeyboardInputForwardOnly(t, e) ==
    IF e.key = "" THEN t
    ELSE LET t1 == IF e.pressed THEN Send(t, "keypress", KeypressElement) ELSE t
             t2 == IF e.pressed /\ e.key = "Tab" THEN Progress(t1, TRUE) ELSE t1
         IN Send(t2, KeyName(e), t2.focus.last_focused_id)

(* A variant of the key handling that sends keydown before the focus      *)
(* advances.                                                               *)
OnKeyboardInputDownFirst(t, e) ==
    IF e.key = "" THEN t
    ELSE LET t1 == IF e.pressed THEN Send(t, "keypress", KeypressElement) ELSE t
             t2 == Send(t1, KeyName(e), t1.focus.last_focused_id)
         IN IF e.pressed /\ e.key = "Tab"
            THEN Progress(t2, "SHIFT" \notin t2.modifiers)
            ELSE t2

(* WindowEvent::KeyboardInput *)
OnKeyboardInput(t, e) ==
    IF e.key = "" THEN t
    ELSE LET t1 == IF e.pressed THEN Send(t, "keypress", KeypressElement) ELSE t
             t2 == IF e.pressed /\ e.key = "Tab"
                   THEN Progress(t1, "SHIFT" \notin t1.modifiers)
                   ELSE t1
         IN Send(t2, KeyName(e), t2.focus.last_focused_id)

(* A variant of the event match whose window events lack the check of     *)
(* the window id.                                                          *)
HandleEventAnyWindow(t, e) ==
    IF e.kind = "NewEventsInit" \/ e.kind = "MainEventsCleared"
    THEN [t EXCEPT !.request = TRUE]
    ELSE IF e.kind \in WindowEventKinds
    THEN IF e.kind = "CloseRequested" THEN [t EXCEPT !.running = FALSE]
         ELSE IF e.kind = "KeyboardInput" THEN OnKeyboardInput(t, e)
         ELSE IF e.kind = "ModifiersChanged"
         THEN [t EXCEPT !.modifiers = TranslateModifiers(e.mods)]
         ELSE IF e.kind = "Resized" THEN [t EXCEPT !.resize = e.sz]
         ELSE t
    ELSE IF e.kind = "Redraw" /\ e.w = ThisWindow
    THEN [t EXCEPT !.request = TRUE]
    ELSE IF e.kind = "RedrawRequested" /\ e.w = ThisWindow
    THEN OnRedrawRequested(t)
    ELSE t

(* A variant of the event match whose redraw arms lack the check of the   *)
(* window id.                                                              *)
HandleEventAnyRedraw(t, e) ==
    IF e.kind = "NewEventsInit" \/ e.kind = "MainEventsCleared"
    THEN [t EXCEPT !.request = TRUE]
    ELSE IF e.kind \in WindowEventKinds /\ e.w = ThisWindow
    THEN IF e.kind = "CloseRequested" THEN [t EXCEPT !.running = FALSE]
         ELSE IF e.kind = "KeyboardInput" THEN OnKeyboardInput(t, e)
         ELSE IF e.kind = "ModifiersChanged"
         THEN [t EXCEPT !.modifiers = TranslateModifiers(e.mods)]
         ELSE IF e.kind = "Resized" THEN [t EXCEPT !.resize = e.sz]
         ELSE t
    ELSE IF e.kind = "Redraw"
    THEN [t EXCEPT !.request = TRUE]
    ELSE IF e.kind = "RedrawRequested"
    THEN OnRedrawRequested(t)
    ELSE t

(* match event { ... } *)
HandleEvent(t, e) ==
    IF e.kind = "NewEventsInit" \/ e.kind = "MainEventsCleared"
    THEN [t EXCEPT !.request = TRUE]
    ELSE IF e.kind \in WindowEventKinds /\ e.w = ThisWindow
    THEN IF e.kind = "CloseRequested" THEN [t EXCEPT !.running = FALSE]
         ELSE IF e.kind = "KeyboardInput" THEN OnKeyboardInput(t, e)
         ELSE IF e.kind = "ModifiersChanged"
         THEN [t EXCEPT !.modifiers = TranslateModifiers(e.mods)]
         ELSE IF e.kind = "Resized" THEN [t EXCEPT !.resize = e.sz]
         ELSE t
    ELSE IF e.kind = "Redraw" /\ e.w = ThisWindow
    THEN [t EXCEPT !.request = TRUE]
    ELSE IF e.kind = "RedrawRequested" /\ e.w = ThisWindow
    THEN OnRedrawRequested(t)
    ELSE t

(* A variant of the prune loop that stops after the first mutation. *)
PruneFirstOnly(t, batch) ==
    IF batch = <<>> THEN t
    ELSE Step([t EXCEPT !.focus = FocusPrune(t.focus, Head(batch), t.rdom)], "prune")

(* for m in mutations.iter() { state.focus.prune(m, &rdom); } *)
RECURSIVE PruneAll(_, _)
PruneAll(t, batch) ==
    IF batch = <<>> THEN t
    ELSE PruneAll(Step([t EXCEPT !.focus = FocusPrune(t.focus, Head(batch), t.rdom)], "prune"),
                  Tail(batch))

(* let to_update = rdom.apply_mutations(mutations); *)
ApplyBatch(t, batch) ==
    [t EXCEPT !.rdom = ApplyMutations(t.rdom, batch),
              !.to_update = ToUpdate(DOMAIN t.rdom, batch, NoUpdate),
              !.steps = @ \o Repeat("apply", Len(batch))]

(* let to_rerender = rdom.update_state(&vdom, to_update, ctx); *)
Reduce(t) ==
    LET r == UpdateState(t.rdom, t.to_update)
    IN Step([t EXCEPT !.rdom = r.rdom, !.to_rerender = r.to_rerender], "reduce")

(* if let Some(s) = resize.take() { dirty_nodes = All; size = s; } *)
ResolveResize(t) ==
    IF t.resize # NoResize
    THEN [t EXCEPT !.dirty_nodes = DirtyAll, !.size = t.resize, !.resize = NoResize]
    ELSE t

(* compute_layout + traverse_depth_first_mut *)
Layout(t) == Step([t EXCEPT !.rdom = Relayout(t.rdom, t.size)], "layout")

(* A variant of the merge that replaces the dirty set by the report. *)
MergeOverwrite(t) == [t EXCEPT !.dirty_nodes = DirtySome(t.to_rerender)]

(* if let DirtyNodes::Some(nodes) = &mut dirty_nodes { nodes.extend(to_rerender) } *)
Merge(t) == [t EXCEPT !.dirty_nodes = DirtyExtend(t.dirty_nodes, t.to_rerender)]

(* proxy.send_event(Redraw(id)) *)
Emit(t) == Step([t EXCEPT !.emitted = @ + 1], "emit")

(* A variant of the restyle body that sends the stale signal twice. *)
RestyleEmitTwice(t) == Emit(Emit(Merge(Layout(ResolveResize(t)))))

(* The body of  if !to_rerender.is_empty() || resize.is_some() { ... } *)
Restyle(t) == Emit(Merge(Layout(ResolveResize(t))))

(* A variant of the pipeline that applies the batch before pruning. *)
PipelineApplyFirst(t, batch) ==
    LET t1 == Reduce(PruneAll(ApplyBatch(t, batch), batch))
    IN IF t1.to_rerender # {} \/ t1.resize # NoResize THEN Restyle(t1) ELSE t1

(* The body of  if resize.is_some() || vdom.has_work() { ... } *)
Pipeline(t, batch) ==
    LET t1 == Reduce(ApplyBatch(PruneAll(t, batch), batch))
    IN IF t1.to_rerender # {} \/ t1.resize # NoResize THEN Restyle(t1) ELSE t1

(* A variant of the work condition that looks at the engine only. *)
WorkOnlyWithEngineWork(t, has_work, batch) ==
    IF has_work THEN Pipeline(t, batch) ELSE t

(* vdom.process_all_messages(); if resize.is_some() || vdom.has_work() *)
Work(t, has_work, batch) ==
    IF t.resize # NoResize \/ has_work THEN Pipeline(t, batch) ELSE t

(* One iteration of the while loop, for the received event e. *)
Iteration(t, e, has_work, batch) == Work(HandleEvent(t, e), has_work, batch)

TaskLocal ==
    [rdom |-> rdom, focus |-> focus, modifiers |-> modifiers,
     dirty_nodes |-> dirty_nodes, size |-> size, resize |-> resize,
     running |-> running, steps |-> <<>>,
     to_update |-> NoUpdate, to_rerender |-> {},
     emitted |-> 0, request |-> FALSE, nodes |-> DirtyDefault,
     painted |-> FALSE, swapped |-> FALSE, sent |-> <<>>]

---------------------------------------------------------------------------
(* Observer of one paint cycle.  signals is 2 once the window task has     *)
(* emitted a stale signal while an earlier one was still waiting at the    *)
(* host loop, and no redraw request was handled since (1 after a lone      *)
(* signal, 0 after a handled redraw request).  Once a paint is made from   *)
(* two such signals with no earlier frame in flight, paints and swaps      *)
(* count the paint submissions and the swap/present calls made since.      *)

Sat(n) == IF n > 2 THEN 2 ELSE n
CycleIdle == [signals |-> 0, paints |-> 0, swaps |-> 0]
Rerenders == {i \in DOMAIN user_events : user_events[i].kind = "Rerender"}
Dirties == {i \in DOMAIN user_events : user_events[i].kind = "Dirty"}
InFlight == frames + Cardinality(Rerenders)

CycleAfterRedraw(c, painted) ==
    IF c.paints > 0
    THEN IF painted THEN [c EXCEPT !.paints = Sat(@ + 1), !.swaps = Sat(@ + 1)] ELSE c
    ELSE IF painted /\ c.signals >= 2 /\ InFlight = 0
    THEN [c EXCEPT !.paints = 1, !.swaps = 1]
    ELSE CycleIdle

CycleAfterEmit(c, emitted) ==
    IF emitted = 0 THEN c
    ELSE [signals |-> IF Dirties # {} \/ (c.paints = 0 /\ c.signals >= 2) THEN 2 ELSE 1,
          paints |-> 0, swaps |-> 0]

CycleAfterIteration(c, e, t) ==
    CycleAfterEmit(IF e.kind = "RedrawRequested" /\ e.w = ThisWindow
                   THEN CycleAfterRedraw(c, t.painted) ELSE c,
                   t.emitted)

CycleAfterSwap(c) == IF c.paints > 0 THEN [c EXCEPT !.swaps = Sat(@ + 1)] ELSE c

---------------------------------------------------------------------------
(* Actions *)

Dirty(w) == Ev("Dirty", w)
Rerender(w) == Ev("Rerender", w)

(* What event_rx.recv() returns: the next event, or an error once the      *)
(* channel is empty and its sender is gone; then no arm of the match runs. *)
NoEvent == Ev("None", NoNode)
Recv == IF event_rx # <<>> THEN Head(event_rx) ELSE NoEvent

(* The results the box-model solver can report to one iteration. *)
SolverOutcomes == {"ok", "compute_err", "layout_err"}

(* Where one iteration ends abnormally, if it does.  t is the task's state *)
(* after the match on the event.  The unwrap() of the root's measurement   *)
(* node, of compute_layout and of layout(node) panic on None or Err, and   *)
(* so does the unwrap() of proxy.send_event once the event loop is gone.   *)
Fault(t, has_work, batch, outcome) ==
    IF ~(t.resize # NoResize \/ has_work) THEN [kind |-> "none", t |-> t]
    ELSE LET t1 == Reduce(ApplyBatch(PruneAll(t, batch), batch)) IN
         IF ~(t1.to_rerender # {} \/ t1.resize # NoResize) THEN [kind |-> "none", t |-> t1]
         ELSE LET t2 == ResolveResize(t1) IN
              IF ~t2.rdom[Root].state.layout_node \/ outcome # "ok"
              THEN [kind |-> "panic_solver", t |-> t2]
              ELSE LET t3 == Merge(Layout(t2)) IN
                   IF host = "exited" THEN [kind |-> "panic_send", t |-> t3]
                   ELSE [kind |-> "none", t |-> Emit(t3)]

(* WindowTask::run, one iteration of the loop that runs to its end:        *)
(* event_rx.recv() blocks until the host loop has sent an event (or has    *)
(* dropped the sender).  observe names the observers (steps, cycle) that   *)
(* the specification at hand records.                                      *)
TaskIter(has_work, batch, observe) ==
    /\ pc = "loop"
    /\ running
    /\ event_rx # <<>> \/ host = "exited"
    /\ has_work \/ batch = <<>>
    /\ vdom_work => has_work
    /\ \E e \in {Recv} : \E t \in {Iteration(TaskLocal, e, has_work, batch)} :
          /\ t.emitted = 0 \/ (host = "run" /\ t.rdom[Root].state.layout_node)
          /\ Len(user_events) + t.emitted <= MaxQueue
          /\ (t.painted => frames < MaxQueue)
          /\ rdom' = t.rdom
          /\ focus' = t.focus
          /\ modifiers' = t.modifiers
          /\ dirty_nodes' = t.dirty_nodes
          /\ size' = t.size
          /\ resize' = t.resize
          /\ running' = t.running
          /\ steps' = (IF "steps" \in observe THEN t.steps ELSE <<>>)
          /\ event_rx' = (IF event_rx # <<>> THEN Tail(event_rx) ELSE event_rx)
          /\ user_events' = user_events \o Repeat(Dirty(ThisWindow), t.emitted)
          /\ redraw_requested' = (redraw_requested \/ t.request)
          /\ frames' = frames + (IF t.painted THEN 1 ELSE 0)
          /\ cycle' = (IF "cycle" \in observe THEN CycleAfterIteration(cycle, e, t) ELSE cycle)
    /\ vdom_work' = FALSE
    /\ redrawn' = (redrawn \/ ("redrawn" \in observe /\ Recv.kind = "RedrawRequested"
                                                    /\ Recv.w = ThisWindow))
    /\ UNCHANGED <<pc, host>>

(* WindowTask::run, one iteration that panics: the thread unwinds, its     *)
(* receiver is dropped and the loop is left without renderer.deinit().     *)
TaskFault(has_work, batch, outcome) ==
    /\ pc = "loop"
    /\ running
    /\ event_rx # <<>> \/ host = "exited"
    /\ has_work \/ batch = <<>>
    /\ vdom_work => has_work
    /\ \E f \in {Fault(HandleEvent(TaskLocal, Recv), has_work, batch, outcome)} :
          /\ f.kind # "none"
          /\ (f.t.painted => frames < MaxQueue)
          /\ pc' = f.kind
          /\ rdom' = f.t.rdom
          /\ focus' = f.t.focus
          /\ modifiers' = f.t.modifiers
          /\ dirty_nodes' = f.t.dirty_nodes
          /\ size' = f.t.size
          /\ resize' = f.t.resize
          /\ running' = f.t.running
          /\ redraw_requested' = (redraw_requested \/ f.t.request)
          /\ frames' = frames + (IF f.t.painted THEN 1 ELSE 0)
    /\ event_rx' = <<>>
    /\ vdom_work' = FALSE
    /\ UNCHANGED <<steps, user_events, cycle, host, redrawn>>

(* The loop condition fails: renderer.deinit(), the task ends and its      *)
(* receiver is dropped.                                                    *)
TaskExit ==
    /\ pc = "loop"
    /\ ~running
    /\ pc' = "done"
    /\ event_rx' = <<>>
    /\ UNCHANGED <<rdom, focus, modifiers, dirty_nodes, size, resize, running, steps,
                   user_events, redraw_requested, frames, cycle, host, vdom_work, redrawn>>

(* A message reaches the UI engine's scheduler channel (an update          *)
(* scheduled by a component); process_all_messages picks it up.            *)
EngineMessage ==
    /\ pc = "loop"
    /\ ~vdom_work
    /\ vdom_work' = TRUE
    /\ UNCHANGED <<rdom, focus, modifiers, dirty_nodes, size, resize, running, pc, steps,
                   event_rx, user_events, redraw_requested, frames, cycle, host, redrawn>>

(* Window::send_event: a send to a task that is gone is logged and dropped *)
SendToWindow(e) == IF pc # "loop" THEN event_rx ELSE Append(event_rx, e)

(* launch: Event::UserEvent(RendererEvent::Dirty(w)) if &w == id *)
HostDirty ==
    /\ host = "run"
    /\ user_events # <<>>
    /\ Head(user_events).kind = "Dirty"
    /\ Head(user_events).w = ThisWindow
    /\ Len(event_rx) < MaxInbox
    /\ user_events' = Tail(user_events)
    /\ event_rx' = SendToWindow(Ev("Redraw", ThisWindow))
    /\ UNCHANGED <<rdom, focus, modifiers, dirty_nodes, size, resize, running, pc, steps,
                   redraw_requested, frames, cycle, host, vdom_work, redrawn>>

(* launch: Event::UserEvent(RendererEvent::Rerender(w)) if &w == id *)
HostRerender ==
    /\ host = "run"
    /\ user_events # <<>>
    /\ Head(user_events).kind = "Rerender"
    /\ Head(user_events).w = ThisWindow
    /\ user_events' = Tail(user_events)
    /\ cycle' = CycleAfterSwap(cycle)
    /\ UNCHANGED <<rdom, focus, modifiers, dirty_nodes, size, resize, running, pc, steps,
                   event_rx, redraw_requested, frames, host, vdom_work, redrawn>>

(* launch: _ => context.send_event(event), for an event of the OS *)
HostForward(e) ==
    /\ host = "run"
    /\ Len(event_rx) < MaxInbox
    /\ (e.kind = "RedrawRequested" /\ e.w = ThisWindow) => redraw_requested
    /\ redraw_requested' =
         IF e.kind = "RedrawRequested" /\ e.w = ThisWindow THEN FALSE ELSE redraw_requested
    /\ event_rx' = SendToWindow(e)
    /\ UNCHANGED <<rdom, focus, modifiers, dirty_nodes, size, resize, running, pc, steps,
                   user_events, frames, cycle, host, vdom_work, redrawn>>

(* launch: run_return returns and launch ends; the event loop and the      *)
(* Window with its sender are dropped.  Events already sent to the window  *)
(* task stay in its channel.                                               *)
HostExit ==
    /\ host = "run"
    /\ host' = "exited"
    /\ user_events' = <<>>
    /\ UNCHANGED <<rdom, focus, modifiers, dirty_nodes, size, resize, running, pc, steps,
                   event_rx, redraw_requested, frames, cycle, vdom_work, redrawn>>

(* Notifier::new_frame_ready -> wake_up: a submitted frame is ready; the   *)
(* result of the proxy's send_event is ignored.                            *)
NotifierWakeUp ==
    /\ frames > 0
    /\ Len(user_events) < MaxQueue
    /\ frames' = frames - 1
    /\ user_events' =
         IF host = "run" THEN Append(user_events, Rerender(ThisWindow)) ELSE user_events
    /\ UNCHANGED <<rdom, focus, modifiers, dirty_nodes, size, resize, running, pc, steps,
                   event_rx, redraw_requested, cycle, host, vdom_work, redrawn>>

---------------------------------------------------------------------------
(* Window::spawn: the tree after vdom.rebuild(), reduced and laid out; the *)
(* first transaction is submitted and the first stale signal sent.         *)

InitialSize == 1

InitialBatches == {b \in BatchesFrom({Root}, MaxBatch, {}, {}) : b # <<>>}

SpawnTree(batch) ==
    LET dom0 == [n \in {Root} |-> NewNode]
        r == UpdateState(ApplyMutations(dom0, batch), ToUpdate({Root}, batch, NoUpdate))
    IN [rdom |-> Relayout(r.rdom, InitialSize), to_rerender |-> r.to_rerender]

(* The state Window::spawn leaves behind for the tree built from batch b   *)
(* when update_state reported the set report.                              *)
Spawned(b, report) ==
    /\ rdom = SpawnTree(b).rdom
    /\ dirty_nodes = DirtySome(report)
    /\ focus = FocusDefault
    /\ modifiers = {}
    /\ size = InitialSize
    /\ resize = NoResize
    /\ running = TRUE
    /\ pc = "loop"
    /\ steps = <<>>
    /\ event_rx = <<>>
    /\ user_events = <<Dirty(ThisWindow)>>
    /\ redraw_requested = FALSE
    /\ frames = 1
    /\ cycle = [CycleIdle EXCEPT !.signals = 1]
    /\ host = "run"
    /\ vdom_work = FALSE
    /\ redrawn = FALSE

Init == \E b \in InitialBatches : Spawned(b, SpawnTree(b).to_rerender)

(* The engine's work in one iteration: whether it has work, and the batch  *)
(* it then produces, with attribute values drawn from the given sets.      *)
TaskStepOver(TabVals, PrevVals, observe) ==
    \E hw \in BOOLEAN : \E b \in BatchesFrom(DOMAIN rdom, MaxBatch, TabVals, PrevVals) :
        TaskIter(hw, b, observe)

(* Events the OS delivers to the host loop *)
OSEvents ==
    {Ev("MainEventsCleared", ThisWindow), Ev("RedrawRequested", ThisWindow),
     Ev("CloseRequested", ThisWindow), Ev("CloseRequested", OtherWindow)}
    \cup {ResizedEv(ThisWindow, s) : s \in Sizes}

TaskStep == TaskStepOver({}, {}, {})

HostOS == \E e \in OSEvents : HostForward(e)

Next ==
    \/ TaskStep
    \/ TaskExit
    \/ HostDirty
    \/ HostRerender
    \/ HostOS
    \/ NotifierWakeUp

Spec == Init /\ [][Next]_vars

---------------------------------------------------------------------------
(* The same system with the cycle observer recording. *)

TaskStepCycle == TaskStepOver({}, {}, {"cycle"})

NextCycle ==
    \/ TaskStepCycle
    \/ TaskExit
    \/ HostDirty
    \/ HostRerender
    \/ HostOS
    \/ NotifierWakeUp

SpecCycle == Init /\ [][NextCycle]_vars

---------------------------------------------------------------------------
(* The same system with the steps observer recording. *)

TaskStepPipeline == TaskStepOver({}, {}, {"steps"})

NextPipeline ==
    \/ TaskStepPipeline
    \/ TaskExit
    \/ HostDirty
    \/ HostRerender
    \/ HostOS
    \/ NotifierWakeUp

SpecPipeline == Init /\ [][NextPipeline]_vars

---------------------------------------------------------------------------
(* The same system driven by keyboard input and by batches that write the  *)
(* tabindex attribute: the focus navigation state machine at work.         *)

KeyEvents ==
    {KeyEv(ThisWindow, "Tab", TRUE), KeyEv(ThisWindow, "Tab", FALSE),
     ModsEv(ThisWindow, {}), ModsEv(ThisWindow, {"shift"})}

TaskStepFocus == TaskStepOver({"", "0"}, {}, {})

HostKeys == \E e \in KeyEvents : HostForward(e)

NextFocus ==
    \/ TaskStepFocus
    \/ HostDirty
    \/ HostRerender
    \/ HostKeys
    \/ NotifierWakeUp

SpecFocus == Init /\ [][NextFocus]_vars

---------------------------------------------------------------------------
(* The same system with every kind of keyboard input: Tab and another key, *)
(* pressed and released, input without a key code, and the Shift modifier. *)

KeyboardEvents ==
    KeyEvents \cup {KeyEv(ThisWindow, "A", TRUE), KeyEv(ThisWindow, "A", FALSE),
                    KeyEv(ThisWindow, "", TRUE)}

TaskStepKeys == TaskStepOver({"0"}, {}, {})

HostKeyboard == \E e \in KeyboardEvents : HostForward(e)

NextKeys ==
    \/ TaskStepKeys
    \/ HostDirty
    \/ HostRerender
    \/ HostKeyboard
    \/ NotifierWakeUp

SpecKeys == Init /\ [][NextKeys]_vars

---------------------------------------------------------------------------
(* PreventDefault::reduce on its own: attribute writes on the root node,   *)
(* each followed by the reducer, over every recognized name, an            *)
(* unrecognized one and the removal of the attribute.                      *)

PreventValues == PreventNames \cup {"", "onbogus"}

PreventWrite(v) ==
    /\ rdom' = UpdateState(ApplyMutation(rdom, Mut("prevent", Root, v)),
                           [NoUpdate EXCEPT !.attrs = {Root}]).rdom
    /\ UNCHANGED <<focus, modifiers, dirty_nodes, size, resize, running, pc, steps,
                   event_rx, user_events, redraw_requested, frames, cycle, host, vdom_work, redrawn>>

NextReduce == \E v \in PreventValues : PreventWrite(v)

SpecReduce == Init /\ [][NextReduce]_vars

---------------------------------------------------------------------------
(* The same system where the solver can fail and the host loop can end.    *)

TaskStepFault ==
    \E hw \in BOOLEAN : \E b \in BatchesFrom(DOMAIN rdom, MaxBatch, {}, {}) :
        \E o \in SolverOutcomes : TaskFault(hw, b, o)

NextFaults ==
    \/ TaskStep
    \/ TaskStepFault
    \/ TaskExit
    \/ HostDirty
    \/ HostRerender
    \/ HostOS
    \/ HostExit
    \/ NotifierWakeUp

SpecFaults == Init /\ [][NextFaults]_vars

---------------------------------------------------------------------------
(* The same system driven by Tab presses and redraw requests, with batches *)
(* that make nodes focusable: focus changes meeting the paint decision.    *)

RepaintEvents == {KeyEv(ThisWindow, "Tab", TRUE), Ev("RedrawRequested", ThisWindow)}

TaskStepRepaint == TaskStepOver({"0"}, {}, {})

HostRepaint == \E e \in RepaintEvents : HostForward(e)

NextRepaint ==
    \/ TaskStepRepaint
    \/ HostDirty
    \/ HostRerender
    \/ HostRepaint
    \/ NotifierWakeUp

SpecRepaint == Init /\ [][NextRepaint]_vars

---------------------------------------------------------------------------
(* The same system where the host loop also receives events of another     *)
(* window and events of kinds no arm of the window task names.             *)

ForeignEvents ==
    {Ev(k, OtherWindow) : k \in {"CloseRequested", "Redraw", "RedrawRequested",
                                 "Dirty", "Rerender"}}
    \cup {KeyEv(OtherWindow, "Tab", TRUE), ModsEv(OtherWindow, {"shift"})}
    \cup {ResizedEv(OtherWindow, s) : s \in Sizes}
    \cup {Ev("Moved", ThisWindow), Ev("Suspended", ThisWindow)}

HostForeign == \E e \in ForeignEvents : HostForward(e)

NextForeign ==
    \/ TaskStep
    \/ TaskExit
    \/ HostDirty
    \/ HostRerender
    \/ HostOS
    \/ HostForeign
    \/ NotifierWakeUp

SpecForeign == Init /\ [][NextForeign]_vars

---------------------------------------------------------------------------
(* The same system with messages arriving at the UI engine's scheduler.    *)

NextWake ==
    \/ TaskStep
    \/ TaskExit
    \/ EngineMessage
    \/ HostDirty
    \/ HostRerender
    \/ HostOS
    \/ NotifierWakeUp

SpecWake == Init /\ [][NextWake]_vars

---------------------------------------------------------------------------
(* The same system from every state Window::spawn can leave behind: the    *)
(* set that update_state returns after the initial rebuild (window.rs:132) *)
(* comes from the reducers, and spawn stores it as it is, also when it is  *)
(* empty.  The redrawn observer records the first handled redraw.          *)

SpawnReports(b) == {SpawnTree(b).to_rerender, {}}

InitFirst == \E b \in InitialBatches : \E report \in SpawnReports(b) : Spawned(b, report)

TaskStepFirst == TaskStepOver({}, {}, {"redrawn"})

NextFirst ==
    \/ TaskStepFirst
    \/ TaskExit
    \/ HostDirty
    \/ HostRerender
    \/ HostOS
    \/ NotifierWakeUp

SpecFirst == InitFirst /\ [][NextFirst]_vars

---------------------------------------------------------------------------
(* The system left to itself: the engine has no work, no resize and no     *)
(* input arrives; the OS delivers only MainEventsCleared and the redraws   *)
(* that the task requested.                                                *)

QuietEvents == {Ev("MainEventsCleared", ThisWindow), Ev("RedrawRequested", ThisWindow)}

TaskStepQuiet == TaskIter(FALSE, <<>>, {})

HostQuiet == \E e \in QuietEvents : HostForward(e)

NextQuiet ==
    \/ TaskStepQuiet
    \/ HostDirty
    \/ HostRerender
    \/ HostQuiet
    \/ NotifierWakeUp

SpecQuiet == Init /\ [][NextQuiet]_vars

---------------------------------------------------------------------------
(* Properties *)

(* The step is an iteration of the window task's loop. *)
TaskIterated ==
    /\ pc = "loop" /\ pc' = "loop"
    /\ event_rx # <<>>
    /\ event_rx' = Tail(event_rx)

Received(kind, w) == TaskIterated /\ Head(event_rx).kind = kind /\ Head(event_rx).w = w

LayoutFresh(dom, sz) == \A n \in DOMAIN dom : dom[n].state.layout = Rect(DOMAIN dom, n, sz)

C2_OnePaintInFlight == [][frames' > frames => InFlight = 0]_vars

NodeVisual(node) ==
    <<node.state.layout, node.state.focus, node.state.focused, node.state.prevent_default>>

\* C3: Soundness of dirty tracking: every node whose layout rectangle, focus
\* field or event-suppression field differs before and after a loop
\* iteration is in the dirty set at the end of the iteration, or the dirty
\* set is All.
C3_DirtySound ==
    [][TaskIterated =>
         \A n \in DOMAIN rdom \cap DOMAIN rdom' :
             NodeVisual(rdom[n]) # NodeVisual(rdom'[n]) => Covers(dirty_nodes', n)]_vars

\* C4: Resize escalation: the iteration that receives Resized(s) for this
\* window sets the dirty set to All, tracks the new size, leaves no resize
\* pending, lays the whole tree out at the new size and emits exactly one
\* Dirty signal, whatever the reducer reports.
C4_ResizeEscalation ==
    [][Received("Resized", ThisWindow) =>
         /\ dirty_nodes' = DirtyAll
         /\ size' = Head(event_rx).sz
         /\ resize' = NoResize
         /\ LayoutFresh(rdom', Head(event_rx).sz)
         /\ user_events' = Append(user_events, Dirty(ThisWindow))]_vars

C4_Witness ==
    /\ size # InitialSize
    /\ dirty_nodes = DirtyAll
    /\ DOMAIN rdom = {Root}
    /\ user_events # <<>>
    /\ user_events[Len(user_events)] = Dirty(ThisWindow)
    /\ LayoutFresh(rdom, size)

FocusedNodes(dom) == {n \in DOMAIN dom : dom[n].state.focused}

\* C5: At most one focused: at most one node of the shadow tree has
\* focused = true, and a node that has it is the focus state's target.
C5_AtMostOneFocused ==
    /\ Cardinality(FocusedNodes(rdom)) <= 1
    /\ \A n \in FocusedNodes(rdom) : focus.last_focused_id = n

C5_Witness ==
    /\ Cardinality(Focusables(rdom)) >= 2
    /\ focus.last_focused_id = NumNodes
    /\ FocusedNodes(rdom) = {NumNodes}

\* C6: Prune safety: the focus state never names a handle that is absent
\* from the shadow tree; when the batch of an iteration removes the node
\* that is focused once the iteration's event is handled (alone or with an
\* ancestor), the focus state becomes Unfocused and the change is recorded
\* for the next clean().
C6_PruneSafety ==
    /\ [](focus.last_focused_id # NoNode => focus.last_focused_id \in DOMAIN rdom)
    /\ [][TaskIterated =>
           LET target == HandleEvent(TaskLocal, Head(event_rx)).focus.last_focused_id
           IN (target # NoNode /\ target \notin DOMAIN rdom')
              => (focus'.last_focused_id = NoNode /\ focus'.dirty)]_vars

C6_Witness ==
    /\ focus = [last_focused_id |-> NoNode, dirty |-> TRUE]
    /\ DOMAIN rdom = {Root}

PipelineOrders ==
    {Repeat("prune", k) \o Repeat("apply", k) \o <<"reduce">> : k \in 0..MaxBatch}
    \cup {Repeat("prune", k) \o Repeat("apply", k) \o <<"reduce", "layout", "emit">> :
          k \in 0..MaxBatch}

\* C7: Pipeline order: within one iteration prune runs for every mutation
\* before the batch is applied, the batch is applied before the reducer
\* runs, layout is recomputed only after the reducer, and the stale signal
\* is emitted only after layout, at which point the layout is that of the
\* tree after the batch.
C7_PipelineOrder ==
    /\ steps = <<>> \/ steps \in PipelineOrders
    /\ (steps # <<>> /\ steps[Len(steps)] = "emit") => LayoutFresh(rdom, size)

C7_Witness ==
    steps = <<"prune", "prune", "apply", "apply", "reduce", "layout", "emit">>

(* Tab, then Shift held, then Tab again, as the window task handles them. *)
TabRoundTrip ==
    LET tab == KeyEv(ThisWindow, "Tab", TRUE)
        t0 == [TaskLocal EXCEPT !.modifiers = {}]
        t1 == HandleEvent(t0, tab)
        t2 == HandleEvent(t1, ModsEv(ThisWindow, {"shift"}))
    IN HandleEvent(t2, tab).focus.last_focused_id

\* C8 (as claimed): with at least one Focusable node, progress forward then
\* progress backward leaves the focus target as it was, from Unfocused as
\* from Focused(h).
C8_RoundTripAnyStart == Focusables(rdom) # {} => TabRoundTrip = focus.last_focused_id

\* C8 (amended): from Focused(h) with h in the tree and Focusable, progress
\* forward then progress backward returns the focus target to h.
C8_RoundTripFocused ==
    focus.last_focused_id \in Focusables(rdom) => TabRoundTrip = focus.last_focused_id

C8_Witness ==
    /\ focus.last_focused_id \in Focusables(rdom)
    /\ Cardinality(Focusables(rdom)) = NumNodes
    /\ focus.last_focused_id = NumNodes

\* C9: Suppression mapping: a reduced node's event-suppression field is the
\* category named by the current value of its dioxus-prevent-default
\* attribute, and Unknown when the attribute is absent or unrecognized.
C9_SuppressionMapping ==
    \A n \in DOMAIN rdom :
        rdom[n].state.prevent_default = PreventCategory(rdom[n].prevent_attr)

TaskVars == <<rdom, focus, modifiers, dirty_nodes, size, resize, running, steps>>

\* C10: Close terminates the loop: CloseRequested for this window clears
\* the running flag; from then on the task receives no event and changes
\* nothing, its only step being the exit to renderer deinit; CloseRequested
\* for another window leaves the running flag alone.
C10_CloseTerminates ==
    /\ [](pc = "done" => ~running)
    /\ [][/\ Received("CloseRequested", ThisWindow) => ~running'
          /\ Received("CloseRequested", OtherWindow) => running' = running
          /\ ~running => /\ ~TaskIterated
                         /\ UNCHANGED TaskVars
                         /\ pc' # pc => pc' = "done"]_vars

C10_Witness == pc = "done" /\ ~running

\* C11: Solver failure is not fatal: when the solver reports failure from
\* compute or from layout(node), or the root has no measurement node, the
\* window task does not end abnormally; it stays in its loop.
C11_SolverFailureNotFatal == pc # "panic_solver"

\* C12: Channel-send failures are not fatal: a send to a peer that is gone
\* is dropped and the sender goes on with its state unchanged; neither the
\* host loop sending to a window task that has ended nor the window task
\* sending a stale signal to a host loop that has ended stops abnormally.
C12_SendFailureNotFatal ==
    /\ [](pc # "panic_send")
    /\ [][(pc # "loop" /\ host = "run") => (event_rx' = <<>> /\ host' = "run")]_vars

\* C13: Focus change forces a full repaint: a change of the focus target
\* is recorded; the next RedrawRequested handled after it paints from All
\* whatever the dirty set held, and leaves nothing recorded, so that a
\* second RedrawRequested with no focus change in between paints from the
\* dirty set alone.
C13_FocusChangeRepaintsAll ==
    [][TaskIterated =>
         /\ focus'.last_focused_id # focus.last_focused_id => focus'.dirty
         /\ Received("RedrawRequested", ThisWindow) =>
              LET h == HandleEvent(TaskLocal, Head(event_rx)) IN
              /\ focus.dirty => (h.nodes = DirtyAll /\ frames' = frames + 1)
              /\ ~focus.dirty => h.nodes = dirty_nodes
              /\ ~h.focus.dirty
              /\ focus'.dirty => focus'.last_focused_id # h.focus.last_focused_id]_vars

C13_Witness ==
    /\ focus.last_focused_id # NoNode
    /\ ~focus.dirty
    /\ dirty_nodes = DirtyDefault
    /\ frames > 0

DirtyCovers(d2, d1) == d2.all \/ (~d1.all /\ d1.nodes \subseteq d2.nodes)

\* C14: The dirty set only grows between paints: in any step other than a
\* RedrawRequested that commits a paint, the dirty set after the step
\* covers the dirty set before it; All stays All.
C14_DirtyOnlyGrows ==
    [][~(Received("RedrawRequested", ThisWindow) /\ frames' > frames)
         => DirtyCovers(dirty_nodes', dirty_nodes)]_vars

C14_Witness ==
    /\ dirty_nodes = DirtyAll
    /\ DOMAIN rdom = Nodes
    /\ size # InitialSize

\* C15: Take at paint loses no marks: a RedrawRequested handled for this
\* window paints from a value that covers the dirty set as it was, paints
\* exactly when that value is not empty, and leaves the dirty set empty
\* before the rest of the iteration runs; any other iteration keeps the
\* marks made so far.
C15_TakeLosesNoMarks ==
    [][TaskIterated =>
         IF Head(event_rx).kind = "RedrawRequested" /\ Head(event_rx).w = ThisWindow
         THEN LET h == HandleEvent(TaskLocal, Head(event_rx)) IN
              /\ DirtyCovers(h.nodes, dirty_nodes)
              /\ h.dirty_nodes = DirtyDefault
              /\ h.painted = ~DirtyIsEmpty(h.nodes)
              /\ frames' = frames + (IF DirtyIsEmpty(dirty_nodes) /\ ~focus.dirty THEN 0 ELSE 1)
              /\ ~dirty_nodes'.all
         ELSE DirtyCovers(dirty_nodes', dirty_nodes)]_vars

C15_Witness ==
    /\ dirty_nodes = DirtyDefault
    /\ frames = MaxQueue

\* C16: Removed nodes leave the bookkeeping: every handle of an explicit
\* dirty set names a node of the shadow tree, and so does the focus
\* state's target.
C16_RemovedLeaveBookkeeping ==
    /\ ~dirty_nodes.all => dirty_nodes.nodes \subseteq DOMAIN rdom
    /\ focus.last_focused_id # NoNode => focus.last_focused_id \in DOMAIN rdom

Discarded(e) ==
    /\ e.kind \notin {"NewEventsInit", "MainEventsCleared"}
    /\ e.w # ThisWindow \/ e.kind \notin (WindowEventKinds \ {"Moved"}) \cup {"Redraw", "RedrawRequested"}

\* C17: Window-mismatched and unrecognized events are discarded: the host
\* loop's dispatch of such an event swaps nothing and changes nothing but
\* the window task's channel; the window task's match on it leaves the
\* running flag, pending resize, modifiers, focus state, dirty set and size
\* as they were and requests no redraw, paints nothing.
C17_ForeignEventsDiscarded ==
    /\ [][(/\ Len(event_rx') = Len(event_rx) + 1
           /\ Discarded(event_rx'[Len(event_rx')]))
          => UNCHANGED <<rdom, focus, modifiers, dirty_nodes, size, resize, running, pc,
                         user_events, redraw_requested, frames, cycle>>]_vars
    /\ [][(TaskIterated /\ Discarded(Head(event_rx))) =>
            /\ HandleEvent(TaskLocal, Head(event_rx)) = TaskLocal
            /\ running' = running
            /\ modifiers' = modifiers
            /\ size' = size
            /\ resize' = resize
            /\ redraw_requested' = redraw_requested
            /\ frames' = frames]_vars

C17_Witness ==
    /\ event_rx = <<Ev("RedrawRequested", OtherWindow)>>
    /\ ~DirtyIsEmpty(dirty_nodes)
    /\ redraw_requested
    /\ pc = "loop"

(* Nothing is on its way to the window task: its channel is empty, the    *)
(* host loop has no user event to dispatch, no frame is being prepared and *)
(* no redraw request is outstanding at the OS.                             *)
NothingInbound ==
    /\ event_rx = <<>>
    /\ user_events = <<>>
    /\ frames = 0
    /\ ~redraw_requested

\* C18: Pending UI-engine work wakes the loop: with work queued at the
\* engine and no inbound event, present or on its way, the window task is
\* not blocked; its loop can take the step that picks the work up.
C18_PendingWorkWakes ==
    (vdom_work /\ NothingInbound /\ pc = "loop" /\ running) => ENABLED TaskStep

\* C19: Swap only on frame-ready: a swap/present call is made only by the
\* host loop's Rerender step; the step of the window task that submits a
\* paint does not swap.
C19_SwapOnlyOnFrameReady ==
    [][TaskIterated => ~HandleEvent(TaskLocal, Head(event_rx)).swapped]_vars

\* C20: Stale signal exactly when needed: an iteration emits the stale
\* signal at most once, and exactly when the reducer reported a changed
\* node or a resize was pending; with no engine work and no pending resize
\* it emits none; no resize is pending at the end of an iteration.
C20_StaleSignalWhenNeeded ==
    /\ [](resize = NoResize)
    /\ []((pc = "loop" /\ running /\ event_rx # <<>>) =>
            \A hw \in BOOLEAN : \A b \in BatchesFrom(DOMAIN rdom, MaxBatch, {}, {}) :
                (hw \/ b = <<>>) =>
                    LET h == HandleEvent(TaskLocal, Head(event_rx))
                        t == Work(h, hw, b)
                    IN /\ t.emitted <= 1
                       /\ t.emitted = 1 <=> (t.to_rerender # {} \/ h.resize # NoResize)
                       /\ (~hw /\ h.resize = NoResize) => t.emitted = 0
                       /\ t.resize = NoResize)
    /\ [][TaskIterated =>
            /\ Len(user_events') \in {Len(user_events), Len(user_events) + 1}
            /\ Len(user_events') > Len(user_events)
                 => user_events'[Len(user_events')] = Dirty(ThisWindow)]_vars

C20_Witness ==
    /\ size # InitialSize
    /\ resize = NoResize
    /\ Len(user_events) = MaxQueue
    /\ \A i \in DOMAIN user_events : user_events[i] = Dirty(ThisWindow)

\* C21: Reducer change report: for every node's suppression field and every
\* attribute value, PreventDefault::reduce returns true exactly when the
\* field after the call differs from the field before it, and a second call
\* with the same attribute returns false and leaves the field as it is.
C21_ReduceReportsChange ==
    \A n \in DOMAIN rdom : \A v \in PreventValues :
        LET before == rdom[n].state.prevent_default
            first == PreventDefaultReduce(before, v)
            second == PreventDefaultReduce(first.self, v)
        IN /\ first.changed <=> first.self # before
           /\ ~second.changed
           /\ second.self = first.self

C21_Witness ==
    /\ rdom[Root].prevent_attr = "onwheel"
    /\ rdom[Root].state.prevent_default = "Wheel"
    /\ PreventDefaultReduce("Wheel", "onclick").changed
    /\ ~PreventDefaultReduce("Wheel", "onwheel").changed

\* C22: First frame always paints in full: the first RedrawRequested of
\* this window that the task handles after the window started submits a
\* paint (render::render builds the whole display list), whatever the
\* initial tree and whatever set the initial rebuild reported.
C22_FirstFramePaints ==
    [][(Received("RedrawRequested", ThisWindow) /\ ~redrawn) => frames' = frames + 1]_vars

KeyAtHead ==
    /\ pc = "loop"
    /\ running
    /\ event_rx # <<>>
    /\ Head(event_rx).kind = "KeyboardInput"
    /\ Head(event_rx).w = ThisWindow
    /\ Head(event_rx).key # ""

Call(name, element) == [name |-> name, element |-> element]

Stale == focus.dirty \/ ~DirtyIsEmpty(dirty_nodes)

\* C24: Paint only when stale: handling RedrawRequested for this window
\* submits a paint exactly when the focus changed since the last clean()
\* or the dirty set is not empty; with an empty dirty set and no focus
\* change it renders nothing and swaps nothing.
C24_PaintOnlyWhenStale ==
    [][Received("RedrawRequested", ThisWindow) =>
         LET h == HandleEvent(TaskLocal, Head(event_rx)) IN
         /\ Stale => (h.painted /\ frames' = frames + 1)
         /\ ~Stale => (~h.painted /\ ~h.swapped /\ frames' = frames)]_vars

C24_Witness ==
    /\ pc = "loop"
    /\ running
    /\ event_rx = <<Ev("RedrawRequested", ThisWindow)>>
    /\ ~Stale
    /\ focus.last_focused_id # NoNode
    /\ frames = 0

\* C25: Paint feedback loop quiesces: with no engine work, no resize and no
\* input, the frame-ready notification of a paint comes back as a wake-up
\* event that causes no further paint submission: from some point on no
\* step submits a paint, so paints do not retrigger themselves forever.
C25_PaintLoopQuiesces == <>[][frames' <= frames]_vars

C25_Witness ==
    /\ pc = "loop"
    /\ DirtyIsEmpty(dirty_nodes)
    /\ frames = 0
    /\ user_events = <<>>
    /\ event_rx = <<>>
    /\ ~redraw_requested

=============================================================================
